---- MODULE Spec2Model ----
(***************************************************************************)
(* Attendance ledger of the college-companion app: the per-subject         *)
(* counters and undo history (push / pop), the attendance percentage       *)
(* (percent) and the two bunk-allowance algorithms (canSkip, the loop of   *)
(* the AsyncStorage revision, and getBunkable, the closed form of the      *)
(* Supabase revision), together with the AttendanceScreen that drives      *)
(* them.                                                                   *)
(*                                                                         *)
(* JavaScript numbers are IEEE-754 doubles.  Additions and subtractions of *)
(* the small integer counters are exact; the quotient attended / total and *)
(* its product with 100 are not, so both are modelled as correctly rounded *)
(* (round-to-nearest-even) double operations on a 53-bit significand kept  *)
(* as five base-2^13 limbs.                                                *)
(***************************************************************************)
EXTENDS Integers, Sequences, FiniteSets, TLC

(***************************************************************************)
(* Bounds of the model.                                                    *)
(***************************************************************************)
MaxSubjects == 2     \* subjects on the screen
MaxTaps == 1         \* history entries per subject on the screen
MaxHistory == 4      \* history entries of the subject followed from its creation
MaxCount == 3        \* counters of the ledgers the kernel is applied to
MaxLen == 1          \* history length of the ledgers the kernel is applied to
MaxPushes == 2       \* length of the action sequences pushed in one go
MaxAttended == 29    \* attended counter of the ledgers the allowance is asked of
MaxMissed == 2       \* missed counter of the ledgers the allowance is asked of
MaxSkip == 21        \* largest allowance asked for
MaxOps == 6          \* pushes performed on the subject followed from its creation
MaxPresent == 23     \* attended counter of the ledgers whose percentage is shown
MaxAbsent == 17      \* missed counter of the ledgers whose percentage is shown
MaxLoopAttended == 3 \* attended counter of the ledgers canSkip is stepped through on
MaxLoopMissed == 2   \* missed counter of the ledgers canSkip is stepped through on
MaxRemoteSubjects == 2 \* subjects created in the Supabase revision
MaxRequests == 2     \* updates and deletes sent in the Supabase revision
MaxExtraMissed == 3  \* further missed classes recorded once the allowance is 0
MaxLastCount == 6    \* counters of the subject of the lastAction revision

VARIABLES
  subjects,   \* AttendanceScreen: useState<Subject[]>, the list on the screen
  clock,      \* AttendanceScreen: the next reading of Date.now()
  alertFor,   \* AttendanceScreen: id the "Delete subject?" alert is open for, or 0
  ledger,     \* kernel: the ledger the pure functions are applied to
  goal,       \* kernel: the target percentage the allowance is asked for
  ops,        \* bookkeeping: the push and pop operations performed on the ledger
  run,        \* canSkip: the running call (its position and its locals a, m)
  closure,    \* Supabase revision: the subjects of the last render, which the
              \* handlers read
  backend,    \* Supabase revision: the rows of attendance_subjects, the
              \* requests in flight and the failures reported
  intended    \* bookkeeping: per subject, the ledger its taps give in tap order

vars == <<subjects, clock, alertFor, ledger, goal, ops, run, closure, backend,
          intended>>

(***************************************************************************)
(* IEEE-754 double arithmetic, as far as the kernel uses it.               *)
(* A positive double is [sh |-> s, d |-> <<d0, d1, d2, d3, d4>>] and       *)
(* stands for (d0*2^52 + d1*2^39 + d2*2^26 + d3*2^13 + d4) / 2^(52 + s);   *)
(* d1..d4 are 13-bit limbs.  Zero is the record DZero.                     *)
(***************************************************************************)
Limb == 2^13

Pow2(n) == 2^n

RECURSIVE BitLen(_)
BitLen(n) == IF n = 0 THEN 0 ELSE 1 + BitLen(n \div 2)

\* smallest s with a * 2^s >= b, for 1 <= a
RECURSIVE NormShift(_, _)
NormShift(a, b) == IF a >= b THEN 0 ELSE 1 + NormShift(2 * a, b)

DZero == [neg |-> FALSE, sh |-> 0, d |-> <<0, 0, 0, 0, 0>>]

\* d + inc on the lowest limb, with the carries into the higher limbs
CarryLimbs(d, inc) ==
  LET v4 == d[5] + inc
      v3 == d[4] + (v4 \div Limb)
      v2 == d[3] + (v3 \div Limb)
      v1 == d[2] + (v2 \div Limb)
      v0 == d[1] + (v1 \div Limb)
  IN  <<v0, v1 % Limb, v2 % Limb, v3 % Limb, v4 % Limb>>

\* round the significand d to its 53 leading bits, ties to even; the exact
\* value is d plus a tail in [0, 1) units of the lowest limb, of which
\* tail2 tells whether twice the tail is 0 (0), below (1), equal to (2) or
\* above (3) one unit
RoundLimbs(d, tail2) ==
  LET drop == IF d[1] = 0 THEN 0 ELSE BitLen(d[1]) - 1
      unit == Pow2(drop)
      rem  == d[5] % unit
      kept == [d EXCEPT ![5] = d[5] - rem]
      odd  == (d[5] \div unit) % 2 = 1
      up   == IF drop = 0
              THEN tail2 = 3 \/ (tail2 = 2 /\ odd)
              ELSE \/ 2 * rem > unit
                   \/ 2 * rem = unit /\ (tail2 > 0 \/ odd)
  IN  IF up THEN CarryLimbs(kept, unit) ELSE kept

\* the double nearest to a / b, for integers 0 <= a, 1 <= b
DoubleDiv(a, b) ==
  IF a = 0 THEN DZero
  ELSE LET s  == NormShift(a, b)
           n  == a * Pow2(s)
           r0 == n % b
           r1 == (r0 * Limb) % b
           r2 == (r1 * Limb) % b
           r3 == (r2 * Limb) % b
           r4 == (r3 * Limb) % b
           q  == <<n \div b, (r0 * Limb) \div b, (r1 * Limb) \div b,
                   (r2 * Limb) \div b, (r3 * Limb) \div b>>
           t2 == IF r4 = 0 THEN 0
                 ELSE IF 2 * r4 < b THEN 1
                 ELSE IF 2 * r4 = b THEN 2 ELSE 3
       IN  [neg |-> FALSE, sh |-> s, d |-> RoundLimbs(q, t2)]

\* the double nearest to x * c, for a double x >= 0 and an integer 1 <= c
DoubleMul(x, c) ==
  LET d  == x.d
      p4 == d[5] * c
      p3 == d[4] * c + (p4 \div Limb)
      p2 == d[3] * c + (p3 \div Limb)
      p1 == d[2] * c + (p2 \div Limb)
      p0 == d[1] * c + (p1 \div Limb)
      p  == <<p0, p1 % Limb, p2 % Limb, p3 % Limb, p4 % Limb>>
  IN  [neg |-> FALSE, sh |-> x.sh, d |-> RoundLimbs(p, 0)]

\* x < n, for a double x and an integer n >= 0
DoubleLess(x, n) ==
  IF x.neg THEN TRUE ELSE x.d[1] < n * Pow2(x.sh)

\* the double nearest to x - n, for a double x >= 0 and an integer n >= 0
DoubleSub(x, n) ==
  LET d   == x.d
      top == n * Pow2(x.sh)
  IN  IF d[1] >= top
      THEN [neg |-> FALSE, sh |-> x.sh, d |-> [d EXCEPT ![1] = d[1] - top]]
      ELSE LET m == IF <<d[2], d[3], d[4], d[5]>> = <<0, 0, 0, 0>>
                    THEN <<top - d[1], 0, 0, 0, 0>>
                    ELSE CarryLimbs(<<top - d[1] - 1, (Limb - 1) - d[2],
                                      (Limb - 1) - d[3], (Limb - 1) - d[4],
                                      (Limb - 1) - d[5]>>, 1)
           IN  [neg |-> TRUE, sh |-> x.sh, d |-> RoundLimbs(m, 0)]

\* Math.round(x) for a double x >= 0: the nearest integer, halves rounded up
MathRound(x) ==
  LET unit == Pow2(x.sh)
      n    == x.d[1] \div unit
      half == IF x.sh = 0 THEN x.d[2] >= Limb \div 2
              ELSE 2 * (x.d[1] % unit) >= unit
  IN  IF half THEN n + 1 ELSE n

\* Math.floor(x)
MathFloor(x) ==
  LET unit == Pow2(x.sh)
      n    == x.d[1] \div unit
      frac == \/ x.d[1] % unit # 0
              \/ <<x.d[2], x.d[3], x.d[4], x.d[5]>> # <<0, 0, 0, 0>>
  IN  IF x.neg THEN (IF frac THEN -(n + 1) ELSE -n) ELSE n

\* Math.max(a, b) on integers
MathMax(a, b) == IF a >= b THEN a ELSE b

(***************************************************************************)
(* The ledger kernel.                                                      *)
(***************************************************************************)
Actions == {"ATTENDED", "MISSED", "ATTENDED_LAB", "MISSED_LAB",
            "CLASS_CANCELLED", "LAB_CANCELLED"}

Front(h) == SubSeq(h, 1, Len(h) - 1)

\* push with the counters decremented instead of incremented
push_Subtracts(s, action, a, m) ==
  [s EXCEPT !.attended = s.attended - a,
            !.missed   = s.missed - m,
            !.history  = Append(s.history, action)]

\* push with the action put at the head of the history
push_Prepends(s, action, a, m) ==
  [s EXCEPT !.attended = s.attended + a,
            !.missed   = s.missed + m,
            !.history  = <<action>> \o s.history]

\* push adding the weights of the action to both counters
push_BothCounters(s, action, a, m) ==
  [s EXCEPT !.attended = s.attended + a + m,
            !.missed   = s.missed + a + m,
            !.history  = Append(s.history, action)]

push(s, action, a, m) ==
  [s EXCEPT !.attended = s.attended + a,
            !.missed   = s.missed + m,
            !.history  = Append(s.history, action)]

\* pop that takes a lab back as a single class
pop_LabAsClass(s) ==
  IF Len(s.history) = 0 THEN s
  ELSE LET last     == s.history[Len(s.history)]
           attended == IF last \in {"ATTENDED", "ATTENDED_LAB"}
                       THEN s.attended - 1 ELSE s.attended
           missed   == IF last \in {"MISSED", "MISSED_LAB"}
                       THEN s.missed - 1 ELSE s.missed
       IN  [s EXCEPT !.attended = MathMax(0, attended),
                     !.missed   = MathMax(0, missed),
                     !.history  = Front(s.history)]

\* pop that resets the counters when there is nothing to undo
pop_ResetsOnEmpty(s) ==
  LET last     == IF Len(s.history) = 0 THEN "NONE"
                  ELSE s.history[Len(s.history)]
      attended == CASE last = "ATTENDED"     -> s.attended - 1
                    [] last = "ATTENDED_LAB" -> s.attended - 2
                    [] last = "NONE"         -> 0
                    [] OTHER                 -> s.attended
      missed   == CASE last = "MISSED"     -> s.missed - 1
                    [] last = "MISSED_LAB" -> s.missed - 2
                    [] last = "NONE"       -> 0
                    [] OTHER               -> s.missed
  IN  [s EXCEPT !.attended = MathMax(0, attended),
                !.missed   = MathMax(0, missed),
                !.history  = Front(s.history)]

\* pop taking the weight of the last action off both counters
pop_TakesBoth(s) ==
  IF Len(s.history) = 0 THEN s
  ELSE LET last   == s.history[Len(s.history)]
           weight == CASE last \in {"ATTENDED", "MISSED"}         -> 1
                       [] last \in {"ATTENDED_LAB", "MISSED_LAB"} -> 2
                       [] OTHER                                   -> 0
       IN  [s EXCEPT !.attended = MathMax(0, s.attended - weight),
                     !.missed   = MathMax(0, s.missed - weight),
                     !.history  = Front(s.history)]

\* pop slicing two entries off the history
pop_DropsTwo(s) ==
  IF Len(s.history) = 0 THEN s
  ELSE LET last     == s.history[Len(s.history)]
           attended == CASE last = "ATTENDED"     -> s.attended - 1
                         [] last = "ATTENDED_LAB" -> s.attended - 2
                         [] OTHER                 -> s.attended
           missed   == CASE last = "MISSED"     -> s.missed - 1
                         [] last = "MISSED_LAB" -> s.missed - 2
                         [] OTHER               -> s.missed
       IN  [s EXCEPT !.attended = MathMax(0, attended),
                     !.missed   = MathMax(0, missed),
                     !.history  = Front(Front(s.history))]

\* pop without Math.max
pop_NoClamp(s) ==
  IF Len(s.history) = 0 THEN s
  ELSE LET last     == s.history[Len(s.history)]
           attended == CASE last = "ATTENDED"     -> s.attended - 1
                         [] last = "ATTENDED_LAB" -> s.attended - 2
                         [] OTHER                 -> s.attended
           missed   == CASE last = "MISSED"     -> s.missed - 1
                         [] last = "MISSED_LAB" -> s.missed - 2
                         [] OTHER               -> s.missed
       IN  [s EXCEPT !.attended = attended,
                     !.missed   = missed,
                     !.history  = Front(s.history)]

\* pop leaving the missed counter alone when it takes back a missed lab
pop_ForgetsMissedLab(s) ==
  IF Len(s.history) = 0 THEN s
  ELSE LET last     == s.history[Len(s.history)]
           attended == CASE last = "ATTENDED"     -> s.attended - 1
                         [] last = "ATTENDED_LAB" -> s.attended - 2
                         [] OTHER                 -> s.attended
           missed   == CASE last = "MISSED"     -> s.missed - 1
                         [] OTHER               -> s.missed
       IN  [s EXCEPT !.attended = MathMax(0, attended),
                     !.missed   = MathMax(0, missed),
                     !.history  = Front(s.history)]

pop(s) ==
  IF Len(s.history) = 0 THEN s
  ELSE LET last     == s.history[Len(s.history)]
           attended == CASE last = "ATTENDED"     -> s.attended - 1
                         [] last = "ATTENDED_LAB" -> s.attended - 2
                         [] OTHER                 -> s.attended
           missed   == CASE last = "MISSED"     -> s.missed - 1
                         [] last = "MISSED_LAB" -> s.missed - 2
                         [] OTHER               -> s.missed
       IN  [s EXCEPT !.attended = MathMax(0, attended),
                     !.missed   = MathMax(0, missed),
                     !.history  = Front(s.history)]

\* the double (a / total) * 100
ratio(a, total) == DoubleMul(DoubleDiv(a, total), 100)

\* percent scaled by 1000 instead of 100
percent_Times1000(s) ==
  LET total == s.attended + s.missed
  IN  IF total = 0 THEN 100
      ELSE MathRound(DoubleMul(DoubleDiv(s.attended, total), 1000))

\* percent that shows 0 for a subject with no classes
percent_ZeroWhenEmpty(s) ==
  LET total == s.attended + s.missed
  IN  IF total = 0 THEN 0
      ELSE MathRound(ratio(s.attended, total))

percent(s) ==
  LET total == s.attended + s.missed
  IN  IF total = 0 THEN 100
      ELSE MathRound(ratio(s.attended, total))

\* the loop breaking on <= instead of <
canSkipLoop_BreaksOnEqual(a, m0, min) ==
  LET loop[m \in Nat] ==
        LET total == a + m + 1
            x     == ratio(a, total)
        IN  IF DoubleLess(x, min) \/ x.d = <<min * Pow2(x.sh), 0, 0, 0, 0>>
            THEN m
            ELSE loop[m + 1]
  IN  loop[m0]

\* the while loop of canSkip, entered with m = m0: the value of m when the
\* loop breaks
canSkipLoop(a, m0, min) ==
  LET loop[m \in Nat] ==
        LET total == a + m + 1
        IN  IF DoubleLess(ratio(a, total), min) THEN m
            ELSE loop[m + 1]
  IN  loop[m0]

\* canSkip counting the trial that broke the loop
canSkip_CountsBreak(s, min) ==
  canSkipLoop(s.attended, s.missed, min) - s.missed + 1

\* canSkip returning m itself
canSkip_ReturnsM(s, min) == canSkipLoop(s.attended, s.missed, min)

\* canSkip starting its count of missed classes at zero
canSkip_IgnoresMissed(s, min) == canSkipLoop(s.attended, 0, min)

canSkip(s, min) == canSkipLoop(s.attended, s.missed, min) - s.missed

\* getBunkable taking only the missed classes off the largest total
getBunkable_SubtractsMissed(attended, missed, target) ==
  LET total == attended + missed
  IN  IF total = 0 THEN 10
      ELSE LET maxTotal == DoubleDiv(attended * 100, target)
               bunkable == MathFloor(DoubleSub(maxTotal, missed))
           IN  MathMax(0, bunkable)

\* getBunkable without the clamp at zero
getBunkable_NoClamp(attended, missed, target) ==
  LET total == attended + missed
  IN  IF total = 0 THEN 10
      ELSE LET maxTotal == DoubleDiv(attended * 100, target)
           IN  MathFloor(DoubleSub(maxTotal, total))

\* getBunkable without the case of a subject with no classes
getBunkable_EmptyUsesFormula(attended, missed, target) ==
  LET total    == attended + missed
      maxTotal == DoubleDiv(attended * 100, target)
      bunkable == MathFloor(DoubleSub(maxTotal, total))
  IN  MathMax(0, bunkable)

\* getBunkable with the difference negated: the classes by which the
\* total exceeds the largest total
getBunkable_NegatesDifference(attended, missed, target) ==
  LET total == attended + missed
  IN  IF total = 0 THEN 10
      ELSE LET maxTotal == DoubleDiv(attended * 100, target)
               bunkable == 0 - MathFloor(DoubleSub(maxTotal, total))
           IN  MathMax(0, bunkable)

getBunkable(attended, missed, target) ==
  LET total == attended + missed
  IN  IF total = 0 THEN 10
      ELSE LET maxTotal == DoubleDiv(attended * 100, target)
               bunkable == MathFloor(DoubleSub(maxTotal, total))
           IN  MathMax(0, bunkable)

\* no operation performed yet; no call of canSkip running
NoOps == [pushes |-> 0, pops |-> 0]
NotRunning == [pc |-> "idle", a |-> 0, m |-> 0, skip |-> 0]

\* no table, nothing sent, nothing in flight, nothing reported
NoBackend == [rows |-> <<>>, inFlight |-> {}, failed |-> {}, sent |-> 0]

(***************************************************************************)
(* The AttendanceScreen (AsyncStorage revision).                           *)
(***************************************************************************)
Names == {"", " ", "Maths"}

\* String.prototype.trim on the names the model types in
trim(name) == IF name = " " THEN "" ELSE name

NewSubject(id, name) ==
  [id |-> id, name |-> name, attended |-> 0, missed |-> 0, history |-> <<>>]

\* the cancelled buttons recording a missed class or lab
onPress_CancelledCountsMissed(x, action) ==
  CASE action = "ATTENDED"        -> push(x, "ATTENDED", 1, 0)
    [] action = "MISSED"          -> push(x, "MISSED", 0, 1)
    [] action = "ATTENDED_LAB"    -> push(x, "ATTENDED_LAB", 2, 0)
    [] action = "MISSED_LAB"      -> push(x, "MISSED_LAB", 0, 2)
    [] action = "CLASS_CANCELLED" -> push(x, "CLASS_CANCELLED", 0, 1)
    [] action = "LAB_CANCELLED"   -> push(x, "LAB_CANCELLED", 0, 2)

\* the lab buttons counting a lab as one class
onPress_LabCountsOnce(x, action) ==
  CASE action = "ATTENDED"        -> push(x, "ATTENDED", 1, 0)
    [] action = "MISSED"          -> push(x, "MISSED", 0, 1)
    [] action = "ATTENDED_LAB"    -> push(x, "ATTENDED_LAB", 1, 0)
    [] action = "MISSED_LAB"      -> push(x, "MISSED_LAB", 0, 1)
    [] action = "CLASS_CANCELLED" -> push(x, "CLASS_CANCELLED", 0, 0)
    [] action = "LAB_CANCELLED"   -> push(x, "LAB_CANCELLED", 0, 0)

\* the updater the button of an action passes to updateSubject
onPress(x, action) ==
  CASE action = "ATTENDED"        -> push(x, "ATTENDED", 1, 0)
    [] action = "MISSED"          -> push(x, "MISSED", 0, 1)
    [] action = "ATTENDED_LAB"    -> push(x, "ATTENDED_LAB", 2, 0)
    [] action = "MISSED_LAB"      -> push(x, "MISSED_LAB", 0, 2)
    [] action = "CLASS_CANCELLED" -> push(x, "CLASS_CANCELLED", 0, 0)
    [] action = "LAB_CANCELLED"   -> push(x, "LAB_CANCELLED", 0, 0)

\* the updaters the screen passes to updateSubject, by name: "pop" is
\* s => pop(s), an action name is the updater of that action's button
callFn(fn, x) == IF fn = "pop" THEN pop(x) ELSE onPress(x, fn)

\* the Supabase updateSubject leaving the React state for later
updateSubjectRemote_Deferred(rendered, prev, id, fn) == prev

\* updateSubject applying fn to every subject of the list
updateSubject_All(prev, id, fn) ==
  [i \in DOMAIN prev |-> callFn(fn, prev[i])]

\* prev.map(x => (x.id === id ? fn(x) : x))
updateSubject(prev, id, fn) ==
  [i \in DOMAIN prev |-> IF prev[i].id = id THEN callFn(fn, prev[i]) ELSE prev[i]]

RECURSIVE filterOut(_, _)
filterOut(prev, id) ==
  IF prev = <<>> THEN <<>>
  ELSE IF Head(prev).id = id THEN filterOut(Tail(prev), id)
       ELSE <<Head(prev)>> \o filterOut(Tail(prev), id)

ScreenInit ==
  /\ subjects = <<>>
  /\ clock = 1
  /\ alertFor = 0
  /\ ops = NoOps
  /\ run = NotRunning
  /\ closure = <<>>
  /\ backend = NoBackend
  /\ intended = <<>>
  /\ ledger = NewSubject(0, "")
  /\ goal = 75

addSubject ==
  /\ alertFor = 0
  /\ \E name \in Names :
       IF trim(name) = "" THEN UNCHANGED <<subjects, clock>>
       ELSE /\ Len(subjects) < MaxSubjects
            /\ clock <= MaxSubjects
            /\ subjects' = Append(subjects, NewSubject(clock, name))
            /\ clock' = clock + 1
  /\ UNCHANGED <<alertFor, ledger, goal, ops, run, closure, backend, intended>>

removeSubject ==
  /\ alertFor = 0
  /\ \E i \in DOMAIN subjects : alertFor' = subjects[i].id
  /\ UNCHANGED <<subjects, clock, ledger, goal, ops, run, closure, backend, intended>>

AlertCancel ==
  /\ alertFor # 0
  /\ alertFor' = 0
  /\ UNCHANGED <<subjects, clock, ledger, goal, ops, run, closure, backend, intended>>

AlertDelete ==
  /\ alertFor # 0
  /\ subjects' = filterOut(subjects, alertFor)
  /\ alertFor' = 0
  /\ UNCHANGED <<clock, ledger, goal, ops, run, closure, backend, intended>>

PressAction ==
  /\ alertFor = 0
  /\ \E i \in DOMAIN subjects, action \in Actions :
       /\ Len(subjects[i].history) < MaxTaps
       /\ subjects' = updateSubject(subjects, subjects[i].id, action)
  /\ UNCHANGED <<clock, alertFor, ledger, goal, ops, run, closure, backend, intended>>

\* the Undo button is disabled while the history is empty
PressUndo ==
  /\ alertFor = 0
  /\ \E i \in DOMAIN subjects :
       /\ Len(subjects[i].history) # 0
       /\ subjects' = updateSubject(subjects, subjects[i].id, "pop")
  /\ UNCHANGED <<clock, alertFor, ledger, goal, ops, run, closure, backend, intended>>

ScreenNext ==
  \/ addSubject
  \/ removeSubject
  \/ AlertCancel
  \/ AlertDelete
  \/ PressAction
  \/ PressUndo

ScreenSpec == ScreenInit /\ [][ScreenNext]_vars

(***************************************************************************)
(* One subject followed from its creation: the buttons push, Undo pops.    *)
(***************************************************************************)
Init ==
  /\ subjects = <<>>
  /\ clock = 1
  /\ alertFor = 0
  /\ ops = NoOps
  /\ run = NotRunning
  /\ closure = <<>>
  /\ backend = NoBackend
  /\ intended = <<>>
  /\ goal = 75
  /\ ledger = NewSubject(1, "Maths")

Push ==
  /\ Len(ledger.history) < MaxHistory
  /\ ops.pushes < MaxOps
  /\ \E action \in Actions : ledger' = onPress(ledger, action)
  /\ ops' = [ops EXCEPT !.pushes = @ + 1]
  /\ UNCHANGED <<subjects, clock, alertFor, goal, run, closure, backend, intended>>

\* pop is counted when it finds an entry to undo
Pop ==
  /\ ledger' = pop(ledger)
  /\ ops' = IF Len(ledger.history) = 0 THEN ops
            ELSE [ops EXCEPT !.pops = @ + 1]
  /\ UNCHANGED <<subjects, clock, alertFor, goal, run, closure, backend, intended>>

Next == Push \/ Pop

Spec == Init /\ [][Next]_vars

(***************************************************************************)
(* The kernel applied to arbitrary ledgers: any non-negative counters and  *)
(* any history, whether or not the two agree.                              *)
(***************************************************************************)
RECURSIVE SeqsUpTo(_, _)
SeqsUpTo(S, n) ==
  IF n = 0 THEN {<<>>}
  ELSE LET shorter == SeqsUpTo(S, n - 1)
       IN  shorter \cup {Append(h, x) : h \in {q \in shorter : Len(q) = n - 1}, x \in S}

LedgerInit ==
  /\ subjects = <<>>
  /\ clock = 1
  /\ alertFor = 0
  /\ ops = NoOps
  /\ run = NotRunning
  /\ closure = <<>>
  /\ backend = NoBackend
  /\ intended = <<>>
  /\ goal = 75
  /\ \E a \in 0..MaxCount, m \in 0..MaxCount, h \in SeqsUpTo(Actions, MaxLen) :
       ledger = [id |-> 1, name |-> "Maths", attended |-> a, missed |-> m,
            history |-> h]

LedgerPush ==
  /\ Len(ledger.history) < MaxLen
  /\ \E action \in Actions : ledger' = onPress(ledger, action)
  /\ UNCHANGED <<subjects, clock, alertFor, goal, ops, run, closure, backend, intended>>

LedgerPop ==
  /\ ledger' = pop(ledger)
  /\ UNCHANGED <<subjects, clock, alertFor, goal, ops, run, closure, backend, intended>>

LedgerNext == LedgerPush \/ LedgerPop

LedgerSpec == LedgerInit /\ [][LedgerNext]_vars

(***************************************************************************)
(* The allowance asked of ledgers with larger counters: a subject that     *)
(* attended a classes and then missed m, and a target percentage.          *)
(***************************************************************************)
Targets == 1..100

\* the button of an action pressed n times, one press after the other
pushN(x, action, n) ==
  LET press[i \in 0..n] == IF i = 0 THEN x ELSE onPress(press[i - 1], action)
  IN  press[n]

MathInit ==
  /\ subjects = <<>>
  /\ clock = 1
  /\ alertFor = 0
  /\ ops = NoOps
  /\ run = NotRunning
  /\ closure = <<>>
  /\ backend = NoBackend
  /\ intended = <<>>
  /\ \E a \in 0..MaxAttended, m \in 0..MaxMissed, t \in Targets :
       /\ 100 * a <= t * (a + m + MaxSkip)
       /\ ledger = pushN(pushN(NewSubject(1, "Maths"), "ATTENDED", a), "MISSED", m)
       /\ goal = t

MathMissed ==
  /\ ledger.missed < MaxMissed
  /\ ledger' = onPress(ledger, "MISSED")
  /\ UNCHANGED <<subjects, clock, alertFor, goal, ops, run, closure, backend, intended>>

MathUndo ==
  /\ Len(ledger.history) # 0
  /\ ledger' = pop(ledger)
  /\ UNCHANGED <<subjects, clock, alertFor, goal, ops, run, closure, backend, intended>>

MathNext == MathMissed \/ MathUndo

MathSpec == MathInit /\ [][MathNext]_vars

(***************************************************************************)
(* The percentage shown for a subject that attended a classes and then     *)
(* missed m.                                                               *)
(***************************************************************************)
PercentInit ==
  /\ subjects = <<>>
  /\ clock = 1
  /\ alertFor = 0
  /\ ops = NoOps
  /\ run = NotRunning
  /\ closure = <<>>
  /\ backend = NoBackend
  /\ intended = <<>>
  /\ goal = 75
  /\ \E a \in 0..MaxPresent, m \in 0..MaxAbsent :
       ledger = pushN(pushN(NewSubject(1, "Maths"), "ATTENDED", a), "MISSED", m)

PercentMissed ==
  /\ ledger.missed < MaxAbsent
  /\ ledger' = onPress(ledger, "MISSED")
  /\ UNCHANGED <<subjects, clock, alertFor, goal, ops, run, closure, backend, intended>>

PercentUndo ==
  /\ Len(ledger.history) # 0
  /\ ledger' = pop(ledger)
  /\ UNCHANGED <<subjects, clock, alertFor, goal, ops, run, closure, backend, intended>>

PercentNext == PercentMissed \/ PercentUndo

PercentSpec == PercentInit /\ [][PercentNext]_vars

(***************************************************************************)
(* canSkip(ledger, goal) run statement by statement: the call copies the   *)
(* counters into a and m, each trial of the while loop either breaks or    *)
(* increments m, and the return subtracts the missed counter.              *)
(***************************************************************************)
SkipInit ==
  /\ subjects = <<>>
  /\ clock = 1
  /\ alertFor = 0
  /\ ops = NoOps
  /\ run = NotRunning
  /\ closure = <<>>
  /\ backend = NoBackend
  /\ intended = <<>>
  /\ \E a \in 0..MaxLoopAttended, m \in 0..MaxLoopMissed, t \in Targets :
       /\ ledger = pushN(pushN(NewSubject(1, "Maths"), "ATTENDED", a), "MISSED", m)
       /\ goal = t

\* let a = s.attended; let m = s.missed
SkipCall ==
  /\ run.pc = "idle"
  /\ run' = [run EXCEPT !.pc = "loop", !.a = ledger.attended, !.m = ledger.missed]
  /\ UNCHANGED <<subjects, clock, alertFor, ledger, goal, ops, closure, backend, intended>>

\* m ^= 1 written for m++
mIncrement_Flips(m) == IF m % 2 = 0 THEN m + 1 ELSE m - 1

\* m++
mIncrement(m) == m + 1

\* const total = a + m + 1; if ((a / total) * 100 < min) break; m++
SkipTrial ==
  /\ run.pc = "loop"
  /\ LET total == run.a + run.m + 1
     IN  run' = IF DoubleLess(ratio(run.a, total), goal)
                THEN [run EXCEPT !.pc = "break"]
                ELSE [run EXCEPT !.m = mIncrement(run.m)]
  /\ UNCHANGED <<subjects, clock, alertFor, ledger, goal, ops, closure, backend, intended>>

\* return m - s.missed
SkipReturn ==
  /\ run.pc = "break"
  /\ run' = [run EXCEPT !.pc = "done", !.skip = run.m - ledger.missed]
  /\ UNCHANGED <<subjects, clock, alertFor, ledger, goal, ops, closure, backend, intended>>

SkipNext == SkipCall \/ SkipTrial \/ SkipReturn

SkipSpec == SkipInit /\ [][SkipNext]_vars

\* the call moves on: its position or one of its locals changes.  Until
\* canSkip has returned SkipNext is enabled, and every step of SkipNext is
\* such a step.
SkipRuns ==
  /\ run.pc # "done"
  /\ run' \in [pc   : {"loop", "break", "done"},
               a    : {ledger.attended},
               m    : {ledger.missed, run.m, run.m + 1},
               skip : {0, run.m - ledger.missed}]
  /\ UNCHANGED <<subjects, clock, alertFor, ledger, goal, ops, closure, backend, intended>>

\* JavaScript runs a synchronous function to completion: a call that has not
\* returned takes its next step
SkipLive == SkipSpec /\ WF_vars(SkipRuns)

(***************************************************************************)
(* The AttendanceScreen of the Supabase revision.  A handler reads the     *)
(* subjects of the render it was created in (closure), sets the React      *)
(* state (subjects) and sends a request; the next render brings closure up *)
(* to date.  The requests in flight reach the table in any order, and each *)
(* succeeds or fails.  backend.sent counts the requests sent.              *)
(***************************************************************************)
\* the updaters of the Supabase revision: its four buttons and Undo
RemoteFns == {"ATTENDED", "MISSED", "ATTENDED_LAB", "MISSED_LAB", "pop"}

\* list.find(s => s.id === id), or the empty sequence for undefined
find(list, id) ==
  LET at == {i \in DOMAIN list : list[i].id = id}
  IN  IF at = {} THEN <<>>
      ELSE list[CHOOSE i \in at : \A j \in at : i <= j]

\* what updateSubject(id, fn) of the Supabase revision computes from the
\* rendered subjects, or <<>> when it returns early
newSubjectOf(rendered, id, fn) ==
  LET subject == find(rendered, id)
  IN  IF subject = <<>> THEN <<>> ELSE callFn(fn, subject)

\* updateSubject of the Supabase revision, as far as the React state goes:
\* prev.map(s => (s.id === id ? newSubject : s))
updateSubjectRemote(rendered, prev, id, fn) ==
  LET newSubject == newSubjectOf(rendered, id, fn)
  IN  IF newSubject = <<>> THEN prev
      ELSE [i \in DOMAIN prev |->
              IF prev[i].id = id THEN newSubject ELSE prev[i]]

\* the request .update({attended, missed, history}).eq('id', id), the
\* no-th request sent
UpdateRequest(newSubject, no) ==
  [kind |-> "update", id |-> newSubject.id, attended |-> newSubject.attended,
   missed |-> newSubject.missed, history |-> newSubject.history,
   previousSubjects |-> <<>>, no |-> no]

\* the request .delete().eq('id', id), with the list its handler holds
DeleteRequest(id, previousSubjects, no) ==
  [kind |-> "delete", id |-> id, attended |-> 0, missed |-> 0,
   history |-> <<>>, previousSubjects |-> previousSubjects, no |-> no]

\* the table after an update request
applyUpdate(rows, r) ==
  [i \in DOMAIN rows |->
     IF rows[i].id = r.id
     THEN [rows[i] EXCEPT !.attended = r.attended, !.missed = r.missed,
                          !.history = r.history]
     ELSE rows[i]]

\* the subjects loaded from the table: one subject with no classes
RemoteInit ==
  /\ subjects = <<NewSubject(1, "Maths")>>
  /\ closure = subjects
  /\ backend = [NoBackend EXCEPT !.rows = subjects]
  /\ intended = subjects
  /\ clock = 2
  /\ alertFor = 0
  /\ ops = NoOps
  /\ run = NotRunning
  /\ goal = 75
  /\ ledger = NewSubject(1, "Maths")

\* React renders the screen again
RemoteRender ==
  /\ closure # subjects
  /\ closure' = subjects
  /\ UNCHANGED <<subjects, clock, alertFor, ledger, goal, ops, run, backend,
                 intended>>

\* addSubject: the insert succeeded and the new row is appended
RemoteAdd ==
  /\ clock <= MaxRemoteSubjects
  /\ LET data == NewSubject(clock, "Maths")
     IN  /\ backend' = [backend EXCEPT !.rows = Append(@, data)]
         /\ subjects' = Append(subjects, data)
         /\ intended' = Append(intended, data)
  /\ clock' = clock + 1
  /\ UNCHANGED <<alertFor, ledger, goal, ops, run, closure>>

\* a button or Undo of a rendered subject is pressed: updateSubject up to
\* its await
RemoteTap ==
  /\ backend.sent < MaxRequests
  /\ \E i \in DOMAIN closure, fn \in RemoteFns :
       LET id         == closure[i].id
           newSubject == newSubjectOf(closure, id, fn)
       IN  /\ fn = "pop" => Len(closure[i].history) # 0
           /\ subjects' = updateSubjectRemote(closure, subjects, id, fn)
           /\ backend' = [backend EXCEPT
                            !.inFlight = @ \cup
                              {UpdateRequest(newSubject, backend.sent + 1)},
                            !.sent = @ + 1]
           /\ intended' = [intended EXCEPT ![id] = callFn(fn, @)]
  /\ UNCHANGED <<clock, alertFor, ledger, goal, ops, run, closure>>

\* an update reaches the table and its await resolves without error
RemoteUpdateDone ==
  /\ \E r \in backend.inFlight :
       /\ r.kind = "update"
       /\ backend' = [backend EXCEPT !.rows = applyUpdate(@, r),
                                     !.inFlight = @ \ {r}]
  /\ UNCHANGED <<subjects, clock, alertFor, ledger, goal, ops, run, closure,
                 intended>>

\* an update fails: console.error (and an alert in the later revision)
RemoteUpdateFails ==
  /\ \E r \in backend.inFlight :
       /\ r.kind = "update"
       /\ backend' = [backend EXCEPT
                        !.inFlight = @ \ {r},
                        !.failed = @ \cup {[kind |-> "update", id |-> r.id]}]
  /\ UNCHANGED <<subjects, clock, alertFor, ledger, goal, ops, run, closure,
                 intended>>

\* Delete is confirmed in the alert of a rendered subject: the handler up
\* to its await
RemoteDelete ==
  /\ backend.sent < MaxRequests
  /\ \E i \in DOMAIN closure :
       LET id == closure[i].id
       IN  /\ subjects' = filterOut(subjects, id)
           /\ backend' = [backend EXCEPT
                            !.inFlight = @ \cup
                              {DeleteRequest(id, closure, backend.sent + 1)},
                            !.sent = @ + 1]
  /\ UNCHANGED <<clock, alertFor, ledger, goal, ops, run, closure, intended>>

\* the delete reaches the table and its await resolves without error
RemoteDeleteDone ==
  /\ \E r \in backend.inFlight :
       /\ r.kind = "delete"
       /\ backend' = [backend EXCEPT !.rows = filterOut(@, r.id),
                                     !.inFlight = @ \ {r}]
  /\ UNCHANGED <<subjects, clock, alertFor, ledger, goal, ops, run, closure,
                 intended>>

\* the delete fails: alert, and setSubjects(previousSubjects)
RemoteDeleteFails ==
  /\ \E r \in backend.inFlight :
       /\ r.kind = "delete"
       /\ subjects' = r.previousSubjects
       /\ backend' = [backend EXCEPT
                        !.inFlight = @ \ {r},
                        !.failed = @ \cup {[kind |-> "delete", id |-> r.id]}]
  /\ UNCHANGED <<clock, alertFor, ledger, goal, ops, run, closure, intended>>

RemoteNext ==
  \/ RemoteRender
  \/ RemoteAdd
  \/ RemoteTap
  \/ RemoteUpdateDone
  \/ RemoteUpdateFails
  \/ RemoteDelete
  \/ RemoteDeleteDone
  \/ RemoteDeleteFails

RemoteSpec == RemoteInit /\ [][RemoteNext]_vars

(***************************************************************************)
(* Properties of push and pop on arbitrary ledgers (LedgerSpec).           *)
(***************************************************************************)
RECURSIVE pushAll(_, _)
pushAll(x, as) ==
  IF as = <<>> THEN x ELSE pushAll(onPress(x, Head(as)), Tail(as))

RECURSIVE popN(_, _)
popN(x, n) == IF n = 0 THEN x ELSE popN(pop(x), n - 1)

\* C1: whatever the ledger (non-negative counters, any history) and
\* whatever the action, undoing right after applying the action gives the
\* ledger back: same attended, same missed, same history.
C1_PopUndoesPush ==
  \A action \in Actions : pop(onPress(ledger, action)) = ledger

\* C1 witness: a ledger whose counters disagree with its history (a lab in
\* the history, attended = 0) on which the round trip is taken.
C1_Witness ==
  /\ ledger.history = <<"ATTENDED_LAB">>
  /\ ledger.attended = 0
  /\ onPress(ledger, "ATTENDED_LAB").attended = 2
  /\ pop(onPress(ledger, "ATTENDED_LAB")) = ledger

\* C2: pop on a ledger with an empty history returns the very same ledger,
\* whatever its counters.
C2_PopOnEmpty ==
  Len(ledger.history) = 0 => pop(ledger) = ledger

\* C2 witness: an empty history with non-zero counters, left alone by pop.
C2_Witness ==
  /\ ledger.history = <<>>
  /\ ledger.attended = 2
  /\ ledger.missed = 1
  /\ pop(ledger) = ledger

\* C10: pushing a1..an onto a ledger leaves its history followed by a1..an
\* in that order, and j pops after that take the last j of them off, the
\* last pushed first.
C10_HistoryOrder ==
  \A as \in SeqsUpTo(Actions, MaxPushes) : \A j \in 0..Len(as) :
    popN(pushAll(ledger, as), j).history
      = ledger.history \o SubSeq(as, 1, Len(as) - j)

\* C10 witness: a ledger that got ATTENDED, onto which MISSED and then
\* ATTENDED_LAB are pushed; the first pop takes ATTENDED_LAB off.
C10_Witness ==
  /\ ledger.history = <<"ATTENDED">>
  /\ pushAll(ledger, <<"MISSED", "ATTENDED_LAB">>).history
       = <<"ATTENDED", "MISSED", "ATTENDED_LAB">>
  /\ popN(pushAll(ledger, <<"MISSED", "ATTENDED_LAB">>), 1).history
       = <<"ATTENDED", "MISSED">>

(***************************************************************************)
(* Properties of a subject followed from its creation (Spec).              *)
(***************************************************************************)
\* C3: whatever buttons were pressed since the subject was created, its
\* counters are never negative.
C3_CountersNonNegative == ledger.attended >= 0 /\ ledger.missed >= 0

\* C3 witness: a subject whose next Undo takes the only missed class off
\* and leaves both counters at zero.
C3_Witness ==
  /\ ledger.history = <<"CLASS_CANCELLED", "MISSED">>
  /\ ledger.attended = 0
  /\ ledger.missed = 1
  /\ pop(ledger).missed = 0

\* C5: a subject with no class on record (attended + missed = 0) shows 100.
C5_VacuousPercent ==
  ledger.attended + ledger.missed = 0 => percent(ledger) = 100

\* C5 witness: the subject as created shows 100.
C5_Witness ==
  /\ ledger = NewSubject(1, "Maths")
  /\ ledger.attended + ledger.missed = 0
  /\ percent(ledger) = 100

(***************************************************************************)
(* Properties of the allowance (MathSpec).                                 *)
(***************************************************************************)
\* the ledger after n more missed classes
afterMisses(n) == pushN(ledger, "MISSED", n)

\* the allowance the loop finds and the one the closed form finds
loopAllowance == canSkip(ledger, goal)
formAllowance == getBunkable(ledger.attended, ledger.missed, goal)

\* the class total at which the attendance is exactly the target, when
\* there is one beyond the classes on record, else 0
exactTotal ==
  LET a == ledger.attended
  IN  IF a > 0 /\ (100 * a) % goal = 0
         /\ (100 * a) \div goal > a + ledger.missed
      THEN (100 * a) \div goal ELSE 0

\* the double (attended / total) * 100 falls below the target at the total
\* where the attendance is exactly the target
roundsBelow ==
  exactTotal # 0 /\ DoubleLess(ratio(ledger.attended, exactTotal), goal)

\* C4: the percentage of every ledger is an integer between 0 and 100.
C4_PercentBounds == percent(ledger) \in 0..100

\* C4 witness: 2 attended and 1 missed show 67.
C4_Witness ==
  /\ ledger.attended = 2
  /\ ledger.missed = 1
  /\ percent(ledger) = 67

\* C6 as stated: the loop and the closed form return the same allowance for
\* every ledger and every target, the ledger without classes included.
C6_Original == loopAllowance = formAllowance

\* C6 as amended: they return the same allowance for every ledger with at
\* least one class on record, unless the double (attended / T) * 100 falls
\* below the target at the total T where the attendance is exactly the
\* target; there the loop returns one less than the closed form.
C6_Amended ==
  ledger.attended + ledger.missed > 0 =>
    loopAllowance = formAllowance - (IF roundsBelow THEN 1 ELSE 0)

\* C6 witness: 3 attended, target 75: both find that one class may be
\* skipped.
C6_Witness ==
  /\ ledger.attended = 3
  /\ ledger.missed = 0
  /\ goal = 75
  /\ loopAllowance = 1
  /\ formAllowance = 1

\* C7 as stated: after as many missed classes as the allowance says, the
\* percentage is still at least the target, for every ledger and target and
\* both algorithms.
C7_Original ==
  /\ percent(afterMisses(loopAllowance)) >= goal
  /\ percent(afterMisses(formAllowance)) >= goal

\* C7 as amended: provided the percentage of the ledger is at least the
\* target to begin with, it still is after as many missed classes as the
\* loop allows, and, when the ledger has a class on record, after as many
\* as the closed form allows.
C7_Amended ==
  percent(ledger) >= goal =>
    /\ percent(afterMisses(loopAllowance)) >= goal
    /\ ledger.attended + ledger.missed > 0 =>
         percent(afterMisses(formAllowance)) >= goal

\* C7 witness: 3 attended, target 75: after the one class allowed the
\* percentage is exactly 75.
C7_Witness ==
  /\ ledger.attended = 3
  /\ ledger.missed = 0
  /\ goal = 75
  /\ loopAllowance = 1
  /\ afterMisses(1).missed = 1
  /\ percent(afterMisses(1)) = 75

\* the double (attended / total) * 100 of a ledger with classes on record,
\* before Math.round
unrounded(x) == ratio(x.attended, x.attended + x.missed)

\* C8 as stated: after one missed class more than the allowance, the
\* rounded percentage is below the target, for both algorithms.
C8_Original ==
  /\ percent(afterMisses(loopAllowance + 1)) < goal
  /\ percent(afterMisses(formAllowance + 1)) < goal

\* C8 as amended: after one missed class more than the allowance, the
\* percentage before rounding, (attended / total) * 100 as the code computes
\* it, is below the target, for both algorithms.
C8_Amended ==
  /\ DoubleLess(unrounded(afterMisses(loopAllowance + 1)), goal)
  /\ DoubleLess(unrounded(afterMisses(formAllowance + 1)), goal)

\* C8 witness: 2 attended, target 67: no class may be skipped, and after one
\* missed class 66.67 is below the target although percent shows 67.
C8_Witness ==
  /\ ledger.attended = 2
  /\ ledger.missed = 0
  /\ goal = 67
  /\ loopAllowance = 0
  /\ formAllowance = 0
  /\ DoubleLess(unrounded(afterMisses(1)), 67)
  /\ percent(afterMisses(1)) = 67

\* C9: the allowance is never negative, under the loop and under the closed
\* form.
C9_AllowanceNonNegative == loopAllowance >= 0 /\ formAllowance >= 0

\* C9 witness: a ledger below the target (1 attended, 2 missed, target 75),
\* where the closed form clamps a negative difference to 0.
C9_Witness ==
  /\ ledger.attended = 1
  /\ ledger.missed = 2
  /\ goal = 75
  /\ loopAllowance = 0
  /\ formAllowance = 0

(***************************************************************************)
(* Undo, step by step, of a subject followed from its creation (Spec).     *)
(***************************************************************************)
\* C11: one pop on a non-empty history reverses exactly one action: the
\* history loses its last entry and nothing else, and only the counter that
\* entry had incremented changes, by the weight of the action (1 for a
\* class, 2 for a lab, 0 for a cancelled one).  From the new subject,
\* attended lab then missed class gives (2, 1) and 67 percent; pop gives
\* (2, 0) with one entry; pop again gives (0, 0) with none.
C11_PopReversesOne ==
  /\ Len(ledger.history) # 0 =>
        LET last  == ledger.history[Len(ledger.history)]
            after == pop(ledger)
        IN  /\ after.history = SubSeq(ledger.history, 1, Len(ledger.history) - 1)
            /\ ledger.attended - after.attended =
                 (CASE last = "ATTENDED"     -> 1
                    [] last = "ATTENDED_LAB" -> 2
                    [] OTHER                 -> 0)
            /\ ledger.missed - after.missed =
                 (CASE last = "MISSED"     -> 1
                    [] last = "MISSED_LAB" -> 2
                    [] OTHER               -> 0)
            /\ after.id = ledger.id
            /\ after.name = ledger.name
  /\ ledger.history = <<"ATTENDED_LAB", "MISSED">> =>
        /\ <<ledger.attended, ledger.missed>> = <<2, 1>>
        /\ percent(ledger) = 67
        /\ <<pop(ledger).attended, pop(ledger).missed>> = <<2, 0>>
        /\ Len(pop(ledger).history) = 1
        /\ <<pop(pop(ledger)).attended, pop(pop(ledger)).missed>> = <<0, 0>>
        /\ pop(pop(ledger)).history = <<>>

\* the subject after attended lab and missed class, and its undo
C11_Witness ==
  /\ ledger.history = <<"ATTENDED_LAB", "MISSED">>
  /\ ops.pops = 0
  /\ percent(ledger) = 67
  /\ pop(ledger).history = <<"ATTENDED_LAB">>
  /\ pop(ledger).missed = 0
  /\ pop(ledger).attended = 2

(***************************************************************************)
(* The allowance at the target and its two definitions (MathSpec).         *)
(***************************************************************************)
\* the subject with 30 classes attended and then 10 missed
ledger30_10 ==
  pushN(pushN(NewSubject(1, "Maths"), "ATTENDED", 30), "MISSED", 10)

\* C12: a ledger exactly at the target, 100 * attended = goal * (attended +
\* missed) with at least one class recorded, has allowance 0 under both
\* algorithms; with 30 attended and 10 missed, percent is 75, the allowance
\* at 75 is 0 and the allowance at 50 is positive.
C12_AtTargetNoAllowance ==
  /\ (/\ ledger.attended + ledger.missed > 0
      /\ 100 * ledger.attended = goal * (ledger.attended + ledger.missed))
       => (loopAllowance = 0 /\ formAllowance = 0)
  /\ percent(ledger30_10) = 75
  /\ canSkip(ledger30_10, 75) = 0
  /\ getBunkable(30, 10, 75) = 0
  /\ canSkip(ledger30_10, 50) > 0
  /\ getBunkable(30, 10, 50) > 0

\* three attended, one missed, asked at 75
C12_Witness ==
  /\ <<ledger.attended, ledger.missed, goal>> = <<3, 1, 75>>
  /\ percent(ledger) = 75
  /\ canSkip(ledger, goal) = 0
  /\ getBunkable(ledger.attended, ledger.missed, goal) = 0

(***************************************************************************)
(* The rounding of the percentage (PercentSpec).                           *)
(***************************************************************************)
\* C13: for attended + missed > 0, percent is 100 * attended / total rounded
\* to the nearest integer with halves rounded up, that is
\* floor((200 * attended + total) / (2 * total)).
C13_Original ==
  LET total == ledger.attended + ledger.missed
  IN  total > 0 =>
        percent(ledger) = (200 * ledger.attended + total) \div (2 * total)

\* C14: canSkip returns the largest k >= 0 such that every j in 1..k has
\* 100 * attended >= goal * (attended + missed + j); it returns 0 when one
\* more absence already puts the unrounded ratio below the goal.
C14_Original ==
  LET stays(j) ==
        100 * ledger.attended >= goal * (ledger.attended + ledger.missed + j)
  IN  /\ \A j \in 1..loopAllowance : stays(j)
      /\ ~stays(loopAllowance + 1)

\* C15: getBunkable returns the constant 10, whatever the goal, when no class
\* is recorded, and max(0, floor(attended * 100 / goal) - (attended + missed))
\* otherwise.
C15_ClosedForm ==
  LET total == ledger.attended + ledger.missed
      most  == (ledger.attended * 100) \div goal
  IN  formAllowance = IF total = 0 THEN 10
                      ELSE IF most - total >= 0 THEN most - total
                      ELSE 0

\* seven attended and two missed, asked at 60: floor(700 / 60) - 9 = 2
C15_Witness ==
  /\ <<ledger.attended, ledger.missed, goal>> = <<7, 2, 60>>
  /\ getBunkable(ledger.attended, ledger.missed, goal) = 2
  /\ getBunkable(0, 0, goal) = 10

(***************************************************************************)
(* Totality of the kernel (SkipLive).                                      *)
(***************************************************************************)
\* C16: every kernel operation is total: for every ledger with non-negative
\* counters and every goal in 1..100 the loop of canSkip terminates and the
\* call returns, and push, pop and percent have a value for every action
\* and ledger.
C16_Total ==
  /\ <>(run.pc = "done")
  /\ [](/\ percent(ledger) \in 0..100
        /\ \A action \in Actions :
             /\ Len(onPress(ledger, action).history) = Len(ledger.history) + 1
             /\ Len(pop(onPress(ledger, action)).history) = Len(ledger.history)
        /\ Len(pop(ledger).history) <= Len(ledger.history))

\* canSkip(s, 1) returned 297 for a subject with three classes attended and
\* none missed
C16_Witness ==
  /\ <<ledger.attended, ledger.missed, goal>> = <<3, 0, 1>>
  /\ run.pc = "done"
  /\ run.m = 297
  /\ run.skip = 297

(***************************************************************************)
(* What push and pop change and what they leave alone (LedgerSpec).        *)
(***************************************************************************)
\* C17: push adds exactly the weights of the action: attended class +1
\* attended, missed class +1 missed, attended lab +2 attended, missed lab +2
\* missed; the other counter, the id and the name are unchanged, and the
\* history grows by exactly that one action at its end.
C17_PushFrame ==
  LET ac == onPress(ledger, "ATTENDED")
      mc == onPress(ledger, "MISSED")
      al == onPress(ledger, "ATTENDED_LAB")
      ml == onPress(ledger, "MISSED_LAB")
  IN  /\ <<ac.attended, ac.missed>> = <<ledger.attended + 1, ledger.missed>>
      /\ <<mc.attended, mc.missed>> = <<ledger.attended, ledger.missed + 1>>
      /\ <<al.attended, al.missed>> = <<ledger.attended + 2, ledger.missed>>
      /\ <<ml.attended, ml.missed>> = <<ledger.attended, ledger.missed + 2>>
      /\ \A action \in {"ATTENDED", "MISSED", "ATTENDED_LAB", "MISSED_LAB"} :
           LET after == onPress(ledger, action)
           IN  /\ after.id = ledger.id
               /\ after.name = ledger.name
               /\ after.history = ledger.history \o <<action>>
               /\ DOMAIN after = DOMAIN ledger

\* a missed lab pushed onto a ledger with one attended and two missed
C17_Witness ==
  /\ <<ledger.attended, ledger.missed>> = <<1, 2>>
  /\ ledger.history = <<"ATTENDED">>
  /\ onPress(ledger, "MISSED_LAB") =
       [id |-> 1, name |-> "Maths", attended |-> 1, missed |-> 4,
        history |-> <<"ATTENDED", "MISSED_LAB">>]

\* C18: pushing CLASS_CANCELLED or LAB_CANCELLED appends the action to the
\* history and leaves attended and missed unchanged; popping such an entry
\* removes it from the history and leaves attended and missed unchanged.
C18_CancelledNoCount ==
  /\ \A action \in {"CLASS_CANCELLED", "LAB_CANCELLED"} :
       LET after == onPress(ledger, action)
       IN  /\ after.history = ledger.history \o <<action>>
           /\ <<after.attended, after.missed>> = <<ledger.attended, ledger.missed>>
  /\ (/\ Len(ledger.history) # 0
      /\ ledger.history[Len(ledger.history)] \in {"CLASS_CANCELLED", "LAB_CANCELLED"})
       => /\ pop(ledger).history = SubSeq(ledger.history, 1, Len(ledger.history) - 1)
          /\ <<pop(ledger).attended, pop(ledger).missed>> =
               <<ledger.attended, ledger.missed>>

\* a cancelled lab on top of the history of a ledger with counters (2, 1)
C18_Witness ==
  /\ ledger.history = <<"LAB_CANCELLED">>
  /\ <<ledger.attended, ledger.missed>> = <<2, 1>>
  /\ pop(ledger).history = <<>>
  /\ <<pop(ledger).attended, pop(ledger).missed>> = <<2, 1>>
  /\ onPress(ledger, "CLASS_CANCELLED").missed = 1

(***************************************************************************)
(* The length of the history of a subject followed from its creation       *)
(* (Spec).                                                                 *)
(***************************************************************************)
\* C19: after any sequence of operations on a new subject, the length of
\* the history is the number of pushes performed minus the number of pops
\* performed while the history was non-empty.
C19_HistoryLength == Len(ledger.history) = ops.pushes - ops.pops

\* four pushes and two pops of a non-empty history
C19_Witness ==
  /\ ops = [pushes |-> 4, pops |-> 2]
  /\ ledger.history = <<"ATTENDED", "MISSED_LAB">>

(***************************************************************************)
(* Undo on a ledger whose history and counters disagree (LedgerSpec).      *)
(***************************************************************************)
\* C20: when the counter of the last history entry is smaller than the
\* weight of that entry (attended = 1 with an attended lab on top, say),
\* pop sets the counter to 0 rather than below it, still removes the entry,
\* returns a ledger, and pushing the same action again does not bring the
\* counters back to what they were before the pop.
C20_ClampOutOfSync ==
  LET n      == Len(ledger.history)
      last   == ledger.history[n]
      short  == \/ last = "ATTENDED"     /\ ledger.attended < 1
                \/ last = "ATTENDED_LAB" /\ ledger.attended < 2
                \/ last = "MISSED"       /\ ledger.missed < 1
                \/ last = "MISSED_LAB"   /\ ledger.missed < 2
      after  == pop(ledger)
      again  == onPress(after, last)
  IN  (n # 0 /\ short) =>
        /\ IF last \in {"ATTENDED", "ATTENDED_LAB"}
           THEN after.attended = 0 ELSE after.missed = 0
        /\ after.attended >= 0
        /\ after.missed >= 0
        /\ after.history = SubSeq(ledger.history, 1, n - 1)
        /\ <<again.attended, again.missed>> # <<ledger.attended, ledger.missed>>

\* one class attended on record and an attended lab on top of the history
C20_Witness ==
  /\ ledger.history = <<"ATTENDED_LAB">>
  /\ <<ledger.attended, ledger.missed>> = <<1, 0>>
  /\ pop(ledger).attended = 0
  /\ pop(ledger).history = <<>>
  /\ onPress(pop(ledger), "ATTENDED_LAB").attended = 2

(***************************************************************************)
(* The counters of a subject followed from its creation against the        *)
(* entries of its history (Spec).                                          *)
(***************************************************************************)
\* what pop takes off the attended counter for an entry of the history
attendedWeight(action) ==
  CASE action = "ATTENDED"     -> 1
    [] action = "ATTENDED_LAB" -> 2
    [] OTHER                   -> 0

\* what pop takes off the missed counter for an entry of the history
missedWeight(action) ==
  CASE action = "MISSED"     -> 1
    [] action = "MISSED_LAB" -> 2
    [] OTHER                 -> 0

RECURSIVE attendedSum(_)
attendedSum(h) ==
  IF h = <<>> THEN 0 ELSE attendedWeight(Head(h)) + attendedSum(Tail(h))

RECURSIVE missedSum(_)
missedSum(h) ==
  IF h = <<>> THEN 0 ELSE missedWeight(Head(h)) + missedSum(Tail(h))

\* C24: for every ledger reached from a new subject by button presses and
\* undos, attended is the sum of the attended weights of the history
\* entries and missed the sum of their missed weights; with an empty
\* history both are 0; and the Math.max of pop changes nothing: the
\* counters it would clamp are never negative.
C24_CountersMatchHistory ==
  /\ ledger.attended = attendedSum(ledger.history)
  /\ ledger.missed = missedSum(ledger.history)
  /\ ledger.history = <<>> => ledger.attended = 0 /\ ledger.missed = 0
  /\ pop(ledger) = pop_NoClamp(ledger)

\* a lab, a class and a cancelled class in the history, after an undo
C24_Witness ==
  /\ ledger.history = <<"ATTENDED_LAB", "MISSED", "CLASS_CANCELLED", "MISSED_LAB">>
  /\ ledger.attended = 2
  /\ ledger.missed = 3
  /\ ops.pops >= 1

(***************************************************************************)
(* Undoing everything (Spec).                                              *)
(***************************************************************************)
\* C25: from any ledger reached from a new subject, undoing as many times
\* as the history has entries gives attended 0, missed 0 and an empty
\* history, each undo on the way shortening the history by one, and any
\* further undo leaves that ledger as it is.
C25_UndoAllReachesEmpty ==
  LET n     == Len(ledger.history)
      empty == [ledger EXCEPT !.attended = 0, !.missed = 0, !.history = <<>>]
  IN  /\ \A k \in 0..n : Len(popN(ledger, k).history) = n - k
      /\ popN(ledger, n) = empty
      /\ \A k \in 1..2 : popN(ledger, n + k) = empty

\* four entries to undo, labs among them
C25_Witness ==
  /\ ledger.history = <<"MISSED_LAB", "ATTENDED", "LAB_CANCELLED", "ATTENDED_LAB">>
  /\ ledger.attended = 3
  /\ ledger.missed = 2

(***************************************************************************)
(* The allowance after one more missed class, and under a higher target    *)
(* (MathSpec).                                                             *)
(***************************************************************************)
\* C28: under the loop, when the allowance of a ledger is 1 or more, the
\* allowance of the ledger after one more missed class is exactly one
\* less; when it is 0, it is still 0 after one, two or three further
\* missed classes.
C28_MissedCostsOne ==
  /\ loopAllowance >= 1 =>
        canSkip(onPress(ledger, "MISSED"), goal) = loopAllowance - 1
  /\ loopAllowance = 0 =>
        \A n \in 1..MaxExtraMissed : canSkip(afterMisses(n), goal) = 0

\* 29 attended and 1 missed under a target of 58: 19 classes left, one less
\* than before the missed class was recorded
C28_Witness ==
  /\ ledger.attended = 29
  /\ ledger.missed = 1
  /\ ledger.history[Len(ledger.history)] = "MISSED"
  /\ goal = 58
  /\ loopAllowance = 19
  /\ canSkip(pop(ledger), goal) = 20

\* C29: the allowance never grows with the target: under the target that
\* follows the goal, the loop and the closed form both allow at most what
\* they allow under the goal, so that, one target after the other, a
\* higher target never allows more; and both allow at least as much under
\* 50 as under 75, the two targets of the Supabase screen.
C29_MonotoneInTarget ==
  /\ \A t2 \in {goal + 1} \cap Targets :
        /\ canSkip(ledger, t2) <= loopAllowance
        /\ getBunkable(ledger.attended, ledger.missed, t2) <= formAllowance
  /\ canSkip(ledger, 50) >= canSkip(ledger, 75)
  /\ getBunkable(ledger.attended, ledger.missed, 50)
        >= getBunkable(ledger.attended, ledger.missed, 75)

\* 20 attended and 2 missed: 18 classes may be skipped under 50, 4 under 75
C29_Witness ==
  /\ ledger.attended = 20
  /\ ledger.missed = 2
  /\ goal = 50
  /\ loopAllowance = 18
  /\ formAllowance = 18
  /\ canSkip(ledger, 75) = 4
  /\ getBunkable(ledger.attended, ledger.missed, 75) = 4

(***************************************************************************)
(* Taps, renders and remote writes of the Supabase revision (RemoteSpec).  *)
(***************************************************************************)
\* C21: every handler derives the new ledger from the most recent ledger of
\* its subject: after any sequence of taps, also taps made while remote
\* writes are in flight or before the screen has rendered again, the local
\* ledger of a subject is what its taps give when applied in tap order to
\* the ledger it started with.
C21_Original ==
  \A i \in DOMAIN subjects : subjects[i] = intended[subjects[i].id]

\* C22: updateSubject(id, fn) changes only the subject whose id matches:
\* every other subject keeps its ledger, the list keeps its length and its
\* order, and with no subject of that id the list is unchanged.  Both the
\* AsyncStorage and the Supabase updateSubject are applied to the list, with
\* every updater and every id, clock being an id no subject has.
C22_UpdateFrame ==
  \A id \in 1..clock, fn \in RemoteFns :
    \A after \in {updateSubject(subjects, id, fn),
                  updateSubjectRemote(closure, subjects, id, fn)} :
      /\ Len(after) = Len(subjects)
      /\ \A i \in DOMAIN subjects :
           /\ after[i].id = subjects[i].id
           /\ after[i].name = subjects[i].name
           /\ subjects[i].id # id => after[i] = subjects[i]
      /\ (\A i \in DOMAIN subjects : subjects[i].id # id) => after = subjects

\* two subjects with different ledgers, the second one updated
C22_Witness ==
  /\ Len(subjects) = 2
  /\ closure = subjects
  /\ subjects[1].history = <<"ATTENDED">>
  /\ subjects[2].history = <<>>
  /\ updateSubject(subjects, subjects[2].id, "MISSED_LAB")[2].missed = 2
  /\ updateSubjectRemote(closure, subjects, subjects[2].id, "MISSED_LAB") =
       <<subjects[1], [subjects[2] EXCEPT !.missed = 2,
                                          !.history = <<"MISSED_LAB">>]>>

\* C23: in the Supabase revisions updateSubject puts the new ledger into the
\* local list before the remote write resolves (the write is then in
\* flight and the table still unchanged), and when the write fails the
\* local list stays as it is: the failure is reported, nothing is rolled
\* back.
C23_OptimisticNoRollback ==
  [][/\ \A r \in backend'.inFlight \ backend.inFlight :
          r.kind = "update" =>
            /\ backend'.rows = backend.rows
            /\ \A i \in DOMAIN subjects' :
                 subjects'[i].id = r.id =>
                   /\ subjects'[i].attended = r.attended
                   /\ subjects'[i].missed = r.missed
                   /\ subjects'[i].history = r.history
            /\ \A i \in DOMAIN subjects :
                 subjects[i].id = r.id =>
                   \E fn \in RemoteFns :
                     subjects'[i] = newSubjectOf(closure, r.id, fn)
     /\ \A f \in backend'.failed \ backend.failed :
          f.kind = "update" =>
            /\ subjects' = subjects
            /\ backend'.rows = backend.rows
     /\ \A r \in backend.inFlight \ backend'.inFlight :
          r.kind = "update" => subjects' = subjects]_vars

\* the write of an attended class has failed: the list has the class, the
\* table does not
C23_Witness ==
  /\ backend.failed = {[kind |-> "update", id |-> 1]}
  /\ backend.inFlight = {}
  /\ Len(subjects) = 1
  /\ subjects[1].history = <<"ATTENDED">>
  /\ subjects[1].attended = 1
  /\ backend.rows[1].attended = 0
  /\ backend.rows[1].history = <<>>

\* C26: in the Supabase revisions, once every remote update sent for a
\* subject has completed without error, the row of the subject has the
\* attended, missed and history of the local ledger, in whatever order the
\* updates in flight completed.
C26_Original ==
  \A i \in DOMAIN subjects, j \in DOMAIN backend.rows :
    (/\ backend.rows[j].id = subjects[i].id
     /\ \A r \in backend.inFlight :
          ~(r.kind = "update" /\ r.id = subjects[i].id)
     /\ [kind |-> "update", id |-> subjects[i].id] \notin backend.failed)
      => /\ backend.rows[j].attended = subjects[i].attended
         /\ backend.rows[j].missed = subjects[i].missed
         /\ backend.rows[j].history = subjects[i].history

\* C27: in the Supabase revisions, when a confirmed delete fails the deleted
\* subject is put back in the local list with the ledger it had, and what
\* happened to the list between the confirmation and the failure, changes
\* to the ledgers of other subjects and subjects added, is preserved.
C27_Original ==
  [][\A r \in backend.inFlight \ backend'.inFlight :
       (r.kind = "delete" /\ backend'.failed # backend.failed) =>
         /\ find(subjects', r.id) = find(r.previousSubjects, r.id)
         /\ \A i \in DOMAIN subjects :
              subjects[i].id # r.id =>
                find(subjects', subjects[i].id) = subjects[i]]_vars

(***************************************************************************)
(* The revision that keeps only the last action of a subject: one subject  *)
(* followed from its creation, the variable ledger holding the subject     *)
(* with its lastAction in place of a history (LastSpec).                   *)
(***************************************************************************)
LastActions == {"ATTENDED", "MISSED", "ATTENDED_LAB", "MISSED_LAB"}

\* the subject addSubject creates: no lastAction
NewLastSubject(id, name) ==
  [id |-> id, name |-> name, attended |-> 0, missed |-> 0,
   lastAction |-> "undefined"]

attended(s) ==
  [s EXCEPT !.attended = s.attended + 1, !.lastAction = "ATTENDED"]

missed(s) ==
  [s EXCEPT !.missed = s.missed + 1, !.lastAction = "MISSED"]

attendedLab(s) ==
  [s EXCEPT !.attended = s.attended + 2, !.lastAction = "ATTENDED_LAB"]

missedLab(s) ==
  [s EXCEPT !.missed = s.missed + 2, !.lastAction = "MISSED_LAB"]

\* undo leaving lastAction in place
undo_KeepsLastAction(s) ==
  CASE s.lastAction = "ATTENDED" ->
         [s EXCEPT !.attended = MathMax(0, s.attended - 1)]
    [] s.lastAction = "MISSED" ->
         [s EXCEPT !.missed = MathMax(0, s.missed - 1)]
    [] s.lastAction = "ATTENDED_LAB" ->
         [s EXCEPT !.attended = MathMax(0, s.attended - 2)]
    [] s.lastAction = "MISSED_LAB" ->
         [s EXCEPT !.missed = MathMax(0, s.missed - 2)]
    [] OTHER -> s

undo(s) ==
  CASE s.lastAction = "ATTENDED" ->
         [s EXCEPT !.attended = MathMax(0, s.attended - 1),
                   !.lastAction = "undefined"]
    [] s.lastAction = "MISSED" ->
         [s EXCEPT !.missed = MathMax(0, s.missed - 1),
                   !.lastAction = "undefined"]
    [] s.lastAction = "ATTENDED_LAB" ->
         [s EXCEPT !.attended = MathMax(0, s.attended - 2),
                   !.lastAction = "undefined"]
    [] s.lastAction = "MISSED_LAB" ->
         [s EXCEPT !.missed = MathMax(0, s.missed - 2),
                   !.lastAction = "undefined"]
    [] OTHER -> s

\* the handler of the button of an action
lastPress(s, action) ==
  CASE action = "ATTENDED"     -> attended(s)
    [] action = "MISSED"       -> missed(s)
    [] action = "ATTENDED_LAB" -> attendedLab(s)
    [] action = "MISSED_LAB"   -> missedLab(s)

LastInit ==
  /\ subjects = <<>>
  /\ clock = 1
  /\ alertFor = 0
  /\ ops = NoOps
  /\ run = NotRunning
  /\ closure = <<>>
  /\ backend = NoBackend
  /\ intended = <<>>
  /\ goal = 75
  /\ ledger = NewLastSubject(1, "Maths")

LastAttended ==
  /\ ledger.attended < MaxLastCount
  /\ ledger' = attended(ledger)
  /\ UNCHANGED <<subjects, clock, alertFor, goal, ops, run, closure, backend, intended>>

LastMissed ==
  /\ ledger.missed < MaxLastCount
  /\ ledger' = missed(ledger)
  /\ UNCHANGED <<subjects, clock, alertFor, goal, ops, run, closure, backend, intended>>

LastAttendedLab ==
  /\ ledger.attended < MaxLastCount
  /\ ledger' = attendedLab(ledger)
  /\ UNCHANGED <<subjects, clock, alertFor, goal, ops, run, closure, backend, intended>>

LastMissedLab ==
  /\ ledger.missed < MaxLastCount
  /\ ledger' = missedLab(ledger)
  /\ UNCHANGED <<subjects, clock, alertFor, goal, ops, run, closure, backend, intended>>

\* the Undo button is rendered while the subject has a lastAction
LastUndo ==
  /\ ledger.lastAction # "undefined"
  /\ ledger' = undo(ledger)
  /\ UNCHANGED <<subjects, clock, alertFor, goal, ops, run, closure, backend, intended>>

LastNext ==
  \/ LastAttended
  \/ LastMissed
  \/ LastAttendedLab
  \/ LastMissedLab
  \/ LastUndo

LastSpec == LastInit /\ [][LastNext]_vars

\* C30: in the revision that stores only lastAction, undo right after an
\* action gives back the subject as it was before the action, with no
\* lastAction; on a subject with a lastAction it takes the weight of that
\* action, and nothing else, off the counter the action had raised and
\* clears lastAction; a second undo in a row changes nothing; and undo on
\* a subject without lastAction returns the subject as it is.
C30_OneLevelUndo ==
  LET cleared(s) == [s EXCEPT !.lastAction = "undefined"]
      once       == undo(ledger)
  IN  /\ \A action \in LastActions :
            /\ undo(lastPress(ledger, action)) = cleared(ledger)
            /\ undo(undo(lastPress(ledger, action))) = cleared(ledger)
      /\ ledger.lastAction \in {"ATTENDED", "ATTENDED_LAB"} =>
            /\ once.attended =
                   ledger.attended - (IF ledger.lastAction = "ATTENDED" THEN 1 ELSE 2)
            /\ once = [cleared(ledger) EXCEPT !.attended = once.attended]
      /\ ledger.lastAction \in {"MISSED", "MISSED_LAB"} =>
            /\ once.missed =
                   ledger.missed - (IF ledger.lastAction = "MISSED" THEN 1 ELSE 2)
            /\ once = [cleared(ledger) EXCEPT !.missed = once.missed]
      /\ undo(once) = once
      /\ ledger.lastAction = "undefined" => once = ledger

\* a subject after an undo: counters left by earlier actions, no lastAction
C30_Witness ==
  /\ ledger.lastAction = "undefined"
  /\ ledger.attended = 3
  /\ ledger.missed = 2

====
